---- MODULE Spec2Model ----
(***************************************************************************)
(* Model of syncer/syncer.go: the block synchronisation orchestrator.      *)
(*                                                                         *)
(* Processes: the status listener (initializePeerMap), the connection      *)
(* event listener (startPeerConnectionEventProcess) with the status query  *)
(* goroutines it spawns, the caller of BulkSync / WatchSync (with the      *)
(* per-peer pull loop bulkSyncWithPeer), the remote peer feeding the block *)
(* channel, and the caller of Close.                                       *)
(*                                                                         *)
(* The chain has a header when the sync modes run (genesis is written      *)
(* before the syncer is started), so Header() is a number in Init; InitHas *)
(* also starts from a chain that reports no header.                        *)
(***************************************************************************)
EXTENDS Integers, Sequences, FiniteSets, TLC

\* ------------------------------------------------------------------ bounds
Peers == {"p1", "p2"}

MaxHeight == 2

MaxInitHead == 1

MaxBlocks == 2

MaxTasks == 1

ChanCap == 1

MaxMissed == 2

Heights == 0..MaxHeight

NoPeer == [id |-> "-", number |-> 0]

NoBlock == -1

NoHeader == -1

VARIABLES
  peerMap,            \* s.peerMap: peer id -> advertised number (partial function)
  header,             \* s.blockchain.Header().Number
  chClosed,           \* newStatusCh has been closed
  feedsClosed,        \* syncPeerClient.Close() has closed the client's feeds
  closePc,            \* position of the caller of Close
  closeRet,           \* what Close returned
  panicked,           \* the process has panicked
  slPc,               \* position of initializePeerMap
  connPc,             \* position of startPeerConnectionEventProcess
  lastEvent,          \* per peer: the last connection event the listener processed
  queries,            \* per peer: status query goroutines still running
  mode,               \* which sync mode the caller runs
  spc,                \* position of the sync mode
  localLatest,        \* local of BulkSync / WatchSync
  skipList,           \* local of BulkSync / WatchSync
  bestPeer,           \* local of BulkSync / WatchSync
  lastReceivedNumber, \* local of bulkSyncWithPeer
  shouldTerminate,    \* local of bulkSyncWithPeer
  block,              \* local of bulkSyncWithPeer: height of the block last received
  blockCh,            \* the channel GetBlocks returned
  streamOpen,         \* the peer has not closed blockCh yet
  sent,               \* blocks of height > 0 the peer has put into blockCh
  missed,             \* notifications dropped since WatchSync last woke (up to MaxMissed)
  attempted,          \* the peers BulkSync has called bulkSyncWithPeer for, in order
  hasRet,             \* what the last call of HasSyncPeer did
  log                 \* calls of the current (or last) bulkSyncWithPeer, in order

vars == <<peerMap, header, chClosed, feedsClosed, closePc, closeRet, panicked,
          slPc, connPc, lastEvent, queries, mode, spc, localLatest,
          skipList, bestPeer, lastReceivedNumber, shouldTerminate, block, blockCh,
          streamOpen, sent, missed, attempted, hasRet, log>>

listenerVars == <<slPc, connPc, lastEvent, queries>>

closeVars == <<chClosed, feedsClosed, closePc, closeRet>>

pullVars == <<lastReceivedNumber, shouldTerminate, block, blockCh, streamOpen,
             sent, log>>

modeVars == <<mode, localLatest, skipList, bestPeer, attempted>>

\* ------------------------------------------------------------ log entries
Ev(op, peer, num, flag, err) ==
  [op |-> op, peer |-> peer, num |-> num, flag |-> flag, err |-> err]

EvGetBlocks(p, from, ok) == Ev("GetBlocks", p, from, ok, "-")

EvVerify(n, ok) == Ev("Verify", "-", n, ok, "-")

EvWrite(n, ok) == Ev("Write", "-", n, ok, "-")

EvCallback(n, ret) == Ev("callback", "-", n, ret, "-")

EvCloseStream(p) == Ev("CloseStream", p, 0, TRUE, "-")

EvReturn(last, term, err) == Ev("return", "-", last, term, err)

\* ------------------------------------------------------------- PeerMap
Put(m, p, n) == [q \in (DOMAIN m) \cup {p} |-> IF q = p THEN n ELSE m[q]]

PutAll(m, st) == [q \in (DOMAIN m) \cup (DOMAIN st) |->
                    IF q \in DOMAIN st THEN st[q] ELSE m[q]]

Remove(m, p) == [q \in (DOMAIN m) \ {p} |-> m[q]]

\* The candidates BestPeer may return: the entries of maximal number outside
\* the skip list (which one of several is not fixed), none when there is no
\* such entry.
BestPeer(m, skip) ==
  LET cand == (DOMAIN m) \ skip
  IN  {[id |-> p, number |-> m[p]] :
         p \in {q \in cand : \A r \in cand : m[r] <= m[q]}}

EmptyMap == [q \in {} |-> 0]

\* -------------------------------------------------------------- Init
Init ==
  /\ peerMap = EmptyMap
  /\ header \in 0..MaxInitHead
  /\ chClosed = FALSE
  /\ feedsClosed = FALSE
  /\ closePc = "idle"
  /\ closeRet = "-"
  /\ panicked = FALSE
  /\ slPc = "snapshot"
  /\ connPc = "recv"
  /\ lastEvent = [p \in Peers |-> "none"]
  /\ queries = [p \in Peers |-> 0]
  /\ mode = "none"
  /\ spc = "idle"
  /\ localLatest = 0
  /\ skipList = {}
  /\ bestPeer = NoPeer
  /\ lastReceivedNumber = 0
  /\ shouldTerminate = FALSE
  /\ block = NoBlock
  /\ blockCh = <<>>
  /\ streamOpen = FALSE
  /\ sent = 0
  /\ missed = 0
  /\ attempted = <<>>
  /\ hasRet = "-"
  /\ log = <<>>

\* ------------------------------------------------- the new-status signal
\* select { case s.newStatusCh <- struct{}{}: default: } on the unbuffered
\* channel: the send is taken only when WatchSync is blocked in its receive,
\* otherwise the notification is dropped; a send on a closed channel panics.
\* missed is kept for a WatchSync that runs or may still start.
Notify ==
  IF chClosed
    THEN /\ panicked' = TRUE
         /\ UNCHANGED <<spc, missed>>
    ELSE /\ panicked' = panicked
         /\ IF spc = "w_wait"
              THEN /\ spc' = "w_woken"
                   /\ missed' = 0
              ELSE /\ spc' = spc
                   /\ missed' = IF mode = "bulk" \/ missed = MaxMissed
                                  THEN missed ELSE missed + 1

\* ------------------------------------------------------ the sync modes
\* BulkSync that gives up at the first failed pull instead of skipping the peer.
BulkAfterPull_StopOnError(b, last, term, err, ll) ==
  IF err # "nil" \/ last >= b.number
    THEN /\ spc' = "done"
         /\ localLatest' = ll
         /\ skipList' = skipList
         /\ bestPeer' = b
    ELSE /\ spc' = "b_loop"
         /\ localLatest' = header
         /\ skipList' = skipList \cup {b.id}
         /\ bestPeer' = b

\* BulkSync lines 178-191: what BulkSync does with the result of the pull.
BulkAfterPull(b, last, term, err, ll) ==
  IF err = "nil" /\ last >= b.number
    THEN /\ spc' = "done"
         /\ localLatest' = ll
         /\ skipList' = skipList
         /\ bestPeer' = b
    ELSE /\ spc' = "b_loop"
         /\ localLatest' = header
         /\ skipList' = skipList \cup {b.id}
         /\ bestPeer' = b

\* WatchSync that looks at shouldTerminate before the error and the height.
WatchAfterPull_TermFirst(b, last, term, err, ll) ==
  /\ localLatest' = ll
  /\ bestPeer' = b
  /\ IF term
       THEN /\ skipList' = skipList
            /\ spc' = "done"
       ELSE /\ skipList' = IF err # "nil" \/ last < b.number
                             THEN skipList \cup {b.id} ELSE skipList
            /\ spc' = "w_wait"

\* WatchSync that skips a peer for an error only, not for a short stream.
WatchAfterPull_SkipOnErrorOnly(b, last, term, err, ll) ==
  /\ localLatest' = ll
  /\ bestPeer' = b
  /\ IF err # "nil"
       THEN /\ skipList' = skipList \cup {b.id}
            /\ spc' = "w_wait"
       ELSE /\ skipList' = skipList
            /\ spc' = IF term /\ last >= b.number THEN "done" ELSE "w_wait"

\* WatchSync lines 227-241: what WatchSync does with the result of the pull.
WatchAfterPull(b, last, term, err, ll) ==
  /\ localLatest' = ll
  /\ bestPeer' = b
  /\ IF err # "nil" \/ last < b.number
       THEN /\ skipList' = skipList \cup {b.id}
            /\ spc' = "w_wait"
       ELSE /\ skipList' = skipList
            /\ spc' = IF term THEN "done" ELSE "w_wait"

AfterPull(b, last, term, err, ll) ==
  IF mode = "bulk"
    THEN BulkAfterPull(b, last, term, err, ll)
    ELSE WatchAfterPull(b, last, term, err, ll)

\* bulkSyncWithPeer lines 249-264: open the block stream of peer b.
EnterPull(b, ll) ==
  /\ attempted' = IF mode = "bulk" THEN Append(attempted, b.id) ELSE attempted
  /\ \E ok \in BOOLEAN :
    IF ok
      THEN /\ log' = <<EvGetBlocks(b.id, header + 1, TRUE)>>
           /\ spc' = "pull"
           /\ bestPeer' = b
           /\ lastReceivedNumber' = 0
           /\ shouldTerminate' = FALSE
           /\ block' = NoBlock
           /\ blockCh' = <<>>
           /\ streamOpen' = TRUE
           /\ sent' = 0
           /\ localLatest' = ll
           /\ skipList' = skipList
      ELSE /\ log' = <<EvGetBlocks(b.id, header + 1, FALSE),
                       EvReturn(0, FALSE, "open")>>
           /\ AfterPull(b, 0, FALSE, "open", ll)
           /\ UNCHANGED <<lastReceivedNumber, shouldTerminate, block, blockCh,
                          streamOpen, sent>>

\* BulkSync lines 150-166.
StartBulkSync ==
  /\ ~panicked
  /\ spc = "idle"
  /\ mode' = "bulk"
  /\ localLatest' = header
  /\ skipList' = {}
  /\ spc' = "b_loop"
  /\ UNCHANGED <<peerMap, header, closeVars, panicked, listenerVars, bestPeer,
                 attempted, pullVars, missed>>
  /\ UNCHANGED hasRet

\* BulkSync lines 168-177: one pass through the head of the loop.
BulkLoop ==
  /\ ~panicked
  /\ mode = "bulk"
  /\ spc = "b_loop"
  /\ LET cands == BestPeer(peerMap, skipList)
     IN  IF cands = {}
           THEN /\ spc' = "done"
                /\ UNCHANGED <<localLatest, skipList, bestPeer, attempted, pullVars>>
           ELSE \E b \in cands :
                  IF b.number <= localLatest
                    THEN /\ spc' = "done"
                         /\ UNCHANGED <<localLatest, skipList, bestPeer, attempted,
                                        pullVars>>
                    ELSE EnterPull(b, localLatest)
  /\ UNCHANGED <<peerMap, header, closeVars, panicked, listenerVars, mode, missed>>
  /\ UNCHANGED hasRet

\* WatchSync lines 197-204: up to the first receive.
StartWatchSync ==
  /\ ~panicked
  /\ spc = "idle"
  /\ mode' = "watch"
  /\ localLatest' = header
  /\ skipList' = {}
  /\ spc' = "w_wait"
  /\ UNCHANGED <<peerMap, header, closeVars, panicked, listenerVars, bestPeer,
                 attempted, pullVars, missed>>
  /\ UNCHANGED hasRet

\* WatchSync line 204 on a closed channel: the receive returns at once.
WatchRecvClosed ==
  /\ ~panicked
  /\ mode = "watch"
  /\ spc = "w_wait"
  /\ chClosed
  /\ spc' = "w_woken"
  /\ missed' = 0
  /\ UNCHANGED <<peerMap, header, closeVars, panicked, listenerVars, mode,
                 localLatest, skipList, bestPeer, attempted, pullVars>>
  /\ UNCHANGED hasRet

\* WatchSync that keeps its skip list when no candidate is left.
WatchWoken_NoReset ==
  /\ ~panicked
  /\ mode = "watch"
  /\ spc = "w_woken"
  /\ LET cands == BestPeer(peerMap, skipList)
     IN  IF cands = {}
           THEN /\ spc' = "w_wait"
                /\ localLatest' = header
                /\ UNCHANGED <<skipList, bestPeer, attempted, pullVars>>
           ELSE \E b \in cands :
                  IF b.number <= header
                    THEN /\ spc' = "w_wait"
                         /\ localLatest' = header
                         /\ UNCHANGED <<skipList, bestPeer, attempted, pullVars>>
                    ELSE EnterPull(b, header)
  /\ UNCHANGED <<peerMap, header, closeVars, panicked, listenerVars, mode, missed>>
  /\ UNCHANGED hasRet

\* WatchSync lines 206-226: after a wake-up.
WatchWoken ==
  /\ ~panicked
  /\ mode = "watch"
  /\ spc = "w_woken"
  /\ LET cands == BestPeer(peerMap, skipList)
     IN  IF cands = {}
           THEN /\ skipList' = {}
                /\ spc' = "w_wait"
                /\ localLatest' = header
                /\ UNCHANGED <<bestPeer, attempted, pullVars>>
           ELSE \E b \in cands :
                  IF b.number <= header
                    THEN /\ spc' = "w_wait"
                         /\ localLatest' = header
                         /\ UNCHANGED <<skipList, bestPeer, attempted, pullVars>>
                    ELSE EnterPull(b, header)
  /\ UNCHANGED <<peerMap, header, closeVars, panicked, listenerVars, mode, missed>>
  /\ UNCHANGED hasRet

\* ------------------------------------------------ the per-peer pull loop
\* A pull loop that closes the stream at the clean end only.
PullReturn_NoCloseOnError(last, term, err, evs) ==
  /\ log' = log \o evs \o
             (IF err = "nil" THEN <<EvCloseStream(bestPeer.id)>> ELSE <<>>) \o
             <<EvReturn(last, term, err)>>
  /\ streamOpen' = FALSE
  /\ blockCh' = <<>>
  /\ lastReceivedNumber' = 0
  /\ shouldTerminate' = FALSE
  /\ block' = NoBlock
  /\ header' = header
  /\ attempted' = attempted
  /\ AfterPull(bestPeer, last, term, err, localLatest)

\* Leaving bulkSyncWithPeer: the deferred CloseStream, then the caller.
PullReturn(last, term, err, evs) ==
  /\ log' = log \o evs \o <<EvCloseStream(bestPeer.id), EvReturn(last, term, err)>>
  /\ streamOpen' = FALSE
  /\ blockCh' = <<>>
  /\ lastReceivedNumber' = 0
  /\ shouldTerminate' = FALSE
  /\ block' = NoBlock
  /\ header' = header
  /\ attempted' = attempted
  /\ AfterPull(bestPeer, last, term, err, localLatest)

\* lines 268-271: the channel is closed and drained.
RecvClosed ==
  /\ ~panicked
  /\ spc = "pull"
  /\ blockCh = <<>>
  /\ ~streamOpen
  /\ PullReturn(lastReceivedNumber, shouldTerminate, "nil", <<>>)
  /\ UNCHANGED <<peerMap, closeVars, panicked, listenerVars, mode, sent, missed>>
  /\ UNCHANGED hasRet

\* A pull loop that takes a block of height 0 for the end of the stream.
RecvZero_EndsLoop ==
  /\ ~panicked
  /\ spc = "pull"
  /\ blockCh # <<>>
  /\ Head(blockCh) = 0
  /\ PullReturn(lastReceivedNumber, shouldTerminate, "nil", <<>>)
  /\ UNCHANGED <<peerMap, closeVars, panicked, listenerVars, mode, sent, missed>>
  /\ UNCHANGED hasRet

\* lines 273-276: a block of height 0.
RecvZero ==
  /\ ~panicked
  /\ spc = "pull"
  /\ blockCh # <<>>
  /\ Head(blockCh) = 0
  /\ blockCh' = Tail(blockCh)
  /\ block' = 0
  /\ UNCHANGED <<peerMap, header, closeVars, panicked, listenerVars, modeVars,
                 spc, lastReceivedNumber, shouldTerminate, streamOpen, sent,
                 missed, log>>
  /\ UNCHANGED hasRet

\* A pull loop that does not invoke the callback.
ProcessBlock_SkipCallback(n, v, w, t) ==
  IF ~v
    THEN PullReturn(lastReceivedNumber, FALSE, "verify", <<EvVerify(n, FALSE)>>)
    ELSE IF ~w
      THEN PullReturn(lastReceivedNumber, FALSE, "write",
                      <<EvVerify(n, TRUE), EvWrite(n, FALSE)>>)
      ELSE /\ log' = log \o <<EvVerify(n, TRUE), EvWrite(n, TRUE)>>
           /\ header' = n
           /\ shouldTerminate' = shouldTerminate
           /\ lastReceivedNumber' = n
           /\ block' = n
           /\ blockCh' = Tail(blockCh)
           /\ UNCHANGED <<modeVars, spc, streamOpen>>

\* A pull loop that invokes the callback before WriteBlock.
ProcessBlock_CallbackBeforeWrite(n, v, w, t) ==
  IF ~v
    THEN PullReturn(lastReceivedNumber, FALSE, "verify", <<EvVerify(n, FALSE)>>)
    ELSE IF ~w
      THEN PullReturn(lastReceivedNumber, FALSE, "write",
                      <<EvVerify(n, TRUE), EvCallback(n, t), EvWrite(n, FALSE)>>)
      ELSE /\ log' = log \o <<EvVerify(n, TRUE), EvCallback(n, t), EvWrite(n, TRUE)>>
           /\ header' = n
           /\ shouldTerminate' = t
           /\ lastReceivedNumber' = n
           /\ block' = n
           /\ blockCh' = Tail(blockCh)
           /\ UNCHANGED <<modeVars, spc, streamOpen>>

\* lines 278-288: a block of height n > 0.  v, w: whether VerifyFinalizedBlock
\* and WriteBlock succeed; t: what the callback returns.
ProcessBlock(n, v, w, t) ==
  IF ~v
    THEN PullReturn(lastReceivedNumber, FALSE, "verify", <<EvVerify(n, FALSE)>>)
    ELSE IF ~w
      THEN PullReturn(lastReceivedNumber, FALSE, "write",
                      <<EvVerify(n, TRUE), EvWrite(n, FALSE)>>)
      ELSE /\ log' = log \o <<EvVerify(n, TRUE), EvWrite(n, TRUE), EvCallback(n, t)>>
           /\ header' = n
           /\ shouldTerminate' = t
           /\ lastReceivedNumber' = n
           /\ block' = n
           /\ blockCh' = Tail(blockCh)
           /\ UNCHANGED <<modeVars, spc, streamOpen>>

RecvBlock ==
  /\ ~panicked
  /\ spc = "pull"
  /\ blockCh # <<>>
  /\ Head(blockCh) > 0
  /\ \E v \in BOOLEAN, w \in BOOLEAN, t \in BOOLEAN :
       /\ (~v => ~w /\ ~t)
       /\ (~w => ~t)
       /\ ProcessBlock(Head(blockCh), v, w, t)
  /\ UNCHANGED <<peerMap, closeVars, panicked, listenerVars, mode, sent, missed>>
  /\ UNCHANGED hasRet

\* A timeout that forgets the progress made.
Timeout_LosesProgress ==
  /\ ~panicked
  /\ spc = "pull"
  /\ blockCh = <<>>
  /\ streamOpen
  /\ PullReturn(0, shouldTerminate, "timeout", <<>>)
  /\ UNCHANGED <<peerMap, closeVars, panicked, listenerVars, mode, sent, missed>>
  /\ UNCHANGED hasRet

\* lines 289-290: nothing arrived within blockTimeout.
Timeout ==
  /\ ~panicked
  /\ spc = "pull"
  /\ blockCh = <<>>
  /\ streamOpen
  /\ PullReturn(lastReceivedNumber, shouldTerminate, "timeout", <<>>)
  /\ UNCHANGED <<peerMap, closeVars, panicked, listenerVars, mode, sent, missed>>
  /\ UNCHANGED hasRet

\* ------------------------------------------------------- the remote peer
\* The peer's side of the stream: it puts a block into the channel ...
PeerSend ==
  /\ ~panicked
  /\ spc = "pull"
  /\ streamOpen
  /\ Len(blockCh) < ChanCap
  /\ \E n \in Heights :
       /\ n > 0 => sent < MaxBlocks
       /\ blockCh' = Append(blockCh, n)
       /\ sent' = IF n > 0 THEN sent + 1 ELSE sent
  /\ UNCHANGED <<peerMap, header, closeVars, panicked, listenerVars, modeVars,
                 spc, lastReceivedNumber, shouldTerminate, block, streamOpen,
                 missed, log>>
  /\ UNCHANGED hasRet

\* ... or ends the stream.
PeerClose ==
  /\ ~panicked
  /\ spc = "pull"
  /\ streamOpen
  /\ streamOpen' = FALSE
  /\ UNCHANGED <<peerMap, header, closeVars, panicked, listenerVars, modeVars,
                 spc, lastReceivedNumber, shouldTerminate, block, blockCh, sent,
                 missed, log>>
  /\ UNCHANGED hasRet

\* ---------------------------------------------------- the status listener
Statuses == UNION {[S -> Heights] : S \in SUBSET Peers}

Tasks == queries["p1"] + queries["p2"]

\* initializePeerMap lines 91-92: the snapshot of the connected peers.
SnapshotPut ==
  /\ ~panicked
  /\ slPc = "snapshot"
  /\ \E st \in Statuses :
       /\ \A p \in DOMAIN st : lastEvent[p] # "disconnected"
       /\ peerMap' = PutAll(peerMap, st)
  /\ slPc' = "recv"
  /\ UNCHANGED <<header, closeVars, panicked, connPc, lastEvent, queries,
                 modeVars, spc, pullVars, missed>>
  /\ UNCHANGED hasRet

\* initializePeerMap lines 94-100: a status update of a peer arrives.
StatusUpdate ==
  /\ ~panicked
  /\ slPc = "recv"
  /\ ~feedsClosed
  /\ \E p \in Peers, n \in Heights :
       /\ lastEvent[p] # "disconnected"
       /\ peerMap' = Put(peerMap, p, n)
  /\ Notify
  /\ UNCHANGED <<header, closeVars, listenerVars, modeVars, pullVars>>
  /\ UNCHANGED hasRet

\* initializePeerMap line 94: the update feed has been closed.
StatusFeedClosed ==
  /\ ~panicked
  /\ slPc = "recv"
  /\ feedsClosed
  /\ slPc' = "done"
  /\ UNCHANGED <<peerMap, header, closeVars, panicked, connPc, lastEvent,
                 queries, modeVars, spc, pullVars, missed>>
  /\ UNCHANGED hasRet

\* ------------------------------------------ the connection event listener
\* startPeerConnectionEventProcess lines 106-111: PeerConnected spawns the
\* status query goroutine.
ConnConnected ==
  /\ ~panicked
  /\ connPc = "recv"
  /\ ~feedsClosed
  /\ Tasks < MaxTasks
  /\ \E p \in Peers :
       /\ lastEvent[p] # "connected"
       /\ lastEvent' = [lastEvent EXCEPT ![p] = "connected"]
       /\ queries' = [queries EXCEPT ![p] = @ + 1]
  /\ UNCHANGED <<peerMap, header, closeVars, panicked, slPc, connPc, modeVars,
                 spc, pullVars, missed>>
  /\ UNCHANGED hasRet

\* startPeerConnectionEventProcess lines 126-127: PeerDisconnected.
ConnDisconnected ==
  /\ ~panicked
  /\ connPc = "recv"
  /\ ~feedsClosed
  /\ \E p \in Peers :
       /\ lastEvent[p] # "disconnected"
       /\ lastEvent' = [lastEvent EXCEPT ![p] = "disconnected"]
       /\ peerMap' = Remove(peerMap, p)
  /\ UNCHANGED <<header, closeVars, panicked, slPc, connPc, queries, modeVars,
                 spc, pullVars, missed>>
  /\ UNCHANGED hasRet

\* startPeerConnectionEventProcess line 106: the event feed has been closed.
ConnFeedClosed ==
  /\ ~panicked
  /\ connPc = "recv"
  /\ feedsClosed
  /\ connPc' = "done"
  /\ UNCHANGED <<peerMap, header, closeVars, panicked, slPc, lastEvent, queries,
                 modeVars, spc, pullVars, missed>>
  /\ UNCHANGED hasRet

\* lines 112-125, the query goroutine: GetPeerStatus fails, or the status is
\* put into the map and the notification sent.
QueryResult ==
  /\ ~panicked
  /\ \E p \in Peers :
       /\ queries[p] > 0
       /\ queries' = [queries EXCEPT ![p] = @ - 1]
       /\ \E ok \in BOOLEAN, n \in Heights :
            IF ok
              THEN /\ peerMap' = Put(peerMap, p, n)
                   /\ Notify
              ELSE /\ n = 0
                   /\ UNCHANGED <<peerMap, panicked, spc, missed>>
  /\ UNCHANGED <<header, closeVars, slPc, connPc, lastEvent, modeVars, pullVars>>
  /\ UNCHANGED hasRet

\* ------------------------------------------------------------------ Close
\* Close line 78.
CloseChannel ==
  /\ ~panicked
  /\ closePc = "idle"
  /\ chClosed' = TRUE
  /\ closePc' = "service"
  /\ UNCHANGED <<peerMap, header, feedsClosed, closeRet, panicked, listenerVars,
                 modeVars, spc, pullVars, missed>>
  /\ UNCHANGED hasRet

\* Close lines 80-82: syncPeerService.Close() succeeds or fails.
CloseService ==
  /\ ~panicked
  /\ closePc = "service"
  /\ \E ok \in BOOLEAN :
       IF ok
         THEN /\ closePc' = "client"
              /\ closeRet' = closeRet
         ELSE /\ closePc' = "done"
              /\ closeRet' = "err"
  /\ UNCHANGED <<peerMap, header, chClosed, feedsClosed, panicked, listenerVars,
                 modeVars, spc, pullVars, missed>>
  /\ UNCHANGED hasRet

\* Close lines 84-86.
CloseClient ==
  /\ ~panicked
  /\ closePc = "client"
  /\ feedsClosed' = TRUE
  /\ closePc' = "done"
  /\ closeRet' = "nil"
  /\ UNCHANGED <<peerMap, header, chClosed, panicked, listenerVars, modeVars,
                 spc, pullVars, missed>>
  /\ UNCHANGED hasRet

\* ------------------------------------------------------------ HasSyncPeer
\* HasSyncPeer lines 139-148 on map m and head h: bestPeer != nil is tested
\* first; header.Number dereferences a nil header.
HasSyncPeer(m, h) ==
  IF BestPeer(m, {}) = {}
    THEN "false"
    ELSE IF h = NoHeader
      THEN "panic"
      ELSE IF \E b \in BestPeer(m, {}) : b.number > h THEN "true" ELSE "false"

HasSyncPeerCall ==
  /\ ~panicked
  /\ hasRet = "-"
  /\ hasRet' = HasSyncPeer(peerMap, header)
  /\ panicked' = (hasRet' = "panic")
  /\ UNCHANGED <<peerMap, header, closeVars, listenerVars, modeVars, spc,
                 pullVars, missed>>

\* ------------------------------------------------------- specifications
\* The steps of the caller of BulkSync / WatchSync.
SyncStep ==
  \/ StartBulkSync
  \/ BulkLoop
  \/ StartWatchSync
  \/ WatchRecvClosed
  \/ WatchWoken
  \/ RecvClosed
  \/ RecvZero
  \/ RecvBlock
  \/ Timeout

\* The whole program.
Next ==
  \/ SyncStep
  \/ PeerSend
  \/ PeerClose
  \/ SnapshotPut
  \/ StatusUpdate
  \/ StatusFeedClosed
  \/ ConnConnected
  \/ ConnDisconnected
  \/ ConnFeedClosed
  \/ QueryResult
  \/ CloseChannel
  \/ CloseService
  \/ CloseClient
  \/ HasSyncPeerCall

Spec == Init /\ [][Next]_vars

\* The steps of the pull loop and of the peer it pulls from.
PullStep ==
  \/ RecvClosed
  \/ RecvZero
  \/ RecvBlock
  \/ Timeout

PeerStep ==
  \/ PeerSend
  \/ PeerClose

\* BulkSync and its streams; the map is filled by the snapshot of the status
\* listener, before or at any point of the run.
NextBulk ==
  \/ StartBulkSync
  \/ BulkLoop
  \/ PullStep
  \/ PeerStep
  \/ SnapshotPut

SpecBulk == Init /\ [][NextBulk]_vars

\* The goroutine that runs BulkSync is scheduled again and again.
FairBulk == Init /\ [][NextBulk]_vars /\ WF_vars(StartBulkSync \/ BulkLoop \/ PullStep)

\* WatchSync and its streams, with the status listener filling the map and
\* sending the notifications.
NextWatch ==
  \/ StartWatchSync
  \/ WatchWoken
  \/ PullStep
  \/ PeerStep
  \/ SnapshotPut
  \/ StatusUpdate

SpecWatch == Init /\ [][NextWatch]_vars

\* The goroutine that runs WatchSync is scheduled again and again; status
\* updates and the peers' blocks arrive or not.
FairWatch == Init /\ [][NextWatch]_vars /\ WF_vars(StartWatchSync \/ WatchWoken \/ PullStep)

\* The two listeners and the query goroutines: everything that writes the map.
NextPeers ==
  \/ SnapshotPut
  \/ StatusUpdate
  \/ ConnConnected
  \/ ConnDisconnected
  \/ QueryResult

SpecPeers == Init /\ [][NextPeers]_vars

CloseStep ==
  \/ CloseChannel
  \/ CloseService
  \/ CloseClient

\* Close called at any point of the two listeners and the query goroutines.
NextShutdown ==
  \/ NextPeers
  \/ StatusFeedClosed
  \/ ConnFeedClosed
  \/ CloseStep

SpecShutdown == Init /\ [][NextShutdown]_vars

\* Close called at any point of a WatchSync and of the status listener.
NextWatchClose ==
  \/ NextWatch
  \/ WatchRecvClosed
  \/ StatusFeedClosed
  \/ CloseStep

\* The goroutines that run WatchSync and Close are scheduled again and again.
FairWatchClose ==
  /\ Init
  /\ [][NextWatchClose]_vars
  /\ WF_vars(StartWatchSync \/ WatchRecvClosed \/ WatchWoken \/ PullStep)
  /\ WF_vars(CloseStep)

\* HasSyncPeer on every map and every answer of Header().
InitHas ==
  /\ peerMap \in Statuses
  /\ header \in Heights \cup {NoHeader}
  /\ chClosed = FALSE
  /\ feedsClosed = FALSE
  /\ closePc = "idle"
  /\ closeRet = "-"
  /\ panicked = FALSE
  /\ slPc = "recv"
  /\ connPc = "recv"
  /\ lastEvent = [p \in Peers |-> "none"]
  /\ queries = [p \in Peers |-> 0]
  /\ mode = "none"
  /\ spc = "idle"
  /\ localLatest = 0
  /\ skipList = {}
  /\ bestPeer = NoPeer
  /\ lastReceivedNumber = 0
  /\ shouldTerminate = FALSE
  /\ block = NoBlock
  /\ blockCh = <<>>
  /\ streamOpen = FALSE
  /\ sent = 0
  /\ missed = 0
  /\ attempted = <<>>
  /\ hasRet = "-"
  /\ log = <<>>

NextHas == HasSyncPeerCall

SpecHas == InitHas /\ [][NextHas]_vars

\* ------------------------------------------------- reading the log
NumsOf(sq) == [i \in 1..Len(sq) |-> sq[i].num]

FromTo(a, b) == [i \in 1..(b - a + 1) |-> a + i - 1]

RetOf(l) == l[Len(l)]

HasReturned(l) == l # <<>> /\ RetOf(l).op = "return"

VerifyNums == NumsOf(SelectSeq(log, LAMBDA e : e.op = "Verify"))

WrittenNums == NumsOf(SelectSeq(log, LAMBDA e : e.op = "Write" /\ e.flag))

CallbackNums == NumsOf(SelectSeq(log, LAMBDA e : e.op = "callback"))

LastWritten == IF WrittenNums = <<>> THEN 0 ELSE WrittenNums[Len(WrittenNums)]

\* The head BulkSync started from, while it has called the pull loop once.
StartHead == log[1].num - 1

\* ------------------------------------------------------------------ C1
\* A BulkSync that made one pull, against a peer advertising H above the
\* local head L, whose stream delivered L+1..H (all verified and written)
\* and then closed.
C1_Case ==
  /\ mode = "bulk"
  /\ spc = "done"
  /\ Len(attempted) = 1
  /\ HasReturned(log)
  /\ log[1].flag
  /\ RetOf(log).err = "nil"
  /\ bestPeer.number > StartHead
  /\ VerifyNums = FromTo(StartHead + 1, bestPeer.number)

\* C1: BulkSync started with local head L against a single peer advertising
\* H > L whose stream delivers L+1..H and closes has returned with local head
\* H, having invoked the callback H-L times, for L+1..H in ascending order,
\* and without skipping the peer or pulling again.
C1_BulkSyncFullStream ==
  C1_Case =>
    /\ header = bestPeer.number
    /\ CallbackNums = FromTo(StartHead + 1, bestPeer.number)
    /\ Len(CallbackNums) = bestPeer.number - StartHead
    /\ skipList = {}

C1_Witness ==
  /\ C1_Case
  /\ bestPeer.number - StartHead >= 2
  /\ DOMAIN peerMap = {bestPeer.id}
  /\ peerMap[bestPeer.id] = bestPeer.number

\* ------------------------------------------------------------------ C2
\* A BulkSync that made one pull, whose stream failed (verification, write
\* or timeout) after L+1..K had been written, K below the advertised height.
C2_Case ==
  /\ mode = "bulk"
  /\ spc = "done"
  /\ Len(attempted) = 1
  /\ HasReturned(log)
  /\ log[1].flag
  /\ RetOf(log).err \in {"verify", "write", "timeout"}
  /\ WrittenNums = FromTo(StartHead + 1, StartHead + Len(WrittenNums))
  /\ StartHead + Len(WrittenNums) < bestPeer.number

\* C2: BulkSync against a single peer whose stream fails after L+1..K were
\* committed has put that peer into the skip list and returned with exactly
\* L+1..K applied: local head K, callback invoked for L+1..K and no more.
C2_BulkSyncPartialStream ==
  C2_Case =>
    /\ skipList = {attempted[1]}
    /\ header = StartHead + Len(WrittenNums)
    /\ CallbackNums = WrittenNums

C2_Witness ==
  /\ C2_Case
  /\ Len(WrittenNums) >= 1
  /\ DOMAIN peerMap = {attempted[1]}

\* ------------------------------------------------------------------ C3
\* C3: every BulkSync run terminates.
C3_BulkSyncTerminates == (mode = "bulk") ~> (spc = "done")

\* ------------------------------------------------------------------ C4
\* C4: every invocation of the per-peer pull loop eventually returns,
\* whatever the peer does.
C4_PullLoopReturns == (spc = "pull") ~> (spc # "pull")

\* ------------------------------------------------------------------ C5
\* C5: in the pull loop the callback is invoked once for each written block,
\* in the order of the writes, right after VerifyFinalizedBlock and then
\* WriteBlock succeeded for it; a block that fails verification is not
\* written and not passed to the callback, ends the loop with the
\* verification error, and the head stays at the last block written.
C5_CallbackAfterCommit ==
  /\ \A i \in 1..Len(log) :
       /\ log[i].op = "callback" =>
            /\ i > 2
            /\ log[i - 1] = EvWrite(log[i].num, TRUE)
            /\ log[i - 2] = EvVerify(log[i].num, TRUE)
       /\ log[i].op = "Write" =>
            /\ i > 1
            /\ log[i - 1] = EvVerify(log[i].num, TRUE)
       /\ (log[i].op = "Write" /\ log[i].flag) =>
            /\ i < Len(log)
            /\ log[i + 1].op = "callback"
            /\ log[i + 1].num = log[i].num
       /\ (log[i].op = "Verify" /\ ~log[i].flag) =>
            /\ Len(log) = i + 2
            /\ log[i + 1].op = "CloseStream"
            /\ RetOf(log) = EvReturn(LastWritten, FALSE, "verify")
  /\ CallbackNums = WrittenNums
  /\ WrittenNums # <<>> => header = LastWritten

C5_Witness ==
  /\ HasReturned(log)
  /\ RetOf(log).err = "verify"
  /\ Len(WrittenNums) >= 1
  /\ header = LastWritten

\* ------------------------------------------------------------------ C6
\* C6: receiving a block of height 0 changes nothing but the channel: no
\* call of VerifyFinalizedBlock, WriteBlock or the callback, the last applied
\* height and the terminate flag stay, and the loop goes on.
C6_ZeroBlockIgnored ==
  [][ (/\ spc = "pull"
       /\ blockCh # <<>>
       /\ Head(blockCh) = 0
       /\ Len(blockCh') < Len(blockCh))
      => /\ spc' = "pull"
         /\ blockCh' = Tail(blockCh)
         /\ log' = log
         /\ header' = header
         /\ lastReceivedNumber' = lastReceivedNumber
         /\ shouldTerminate' = shouldTerminate
         /\ streamOpen' = streamOpen ]_vars

C6_Witness ==
  /\ spc = "pull"
  /\ block = 0
  /\ lastReceivedNumber > 0
  /\ blockCh # <<>>
  /\ Head(blockCh) > 0

\* ------------------------------------------------------------------ C7
\* C7: the pull loop returns the timeout error only when the stream is open
\* and no block is waiting in the channel (also after blocks were received),
\* and it returns with it the height of the last block it applied in this
\* invocation, 0 if none.
C7_TimeoutReturnsProgress ==
  [][ (/\ log' # log
       /\ HasReturned(log')
       /\ RetOf(log').err = "timeout")
      => /\ spc = "pull"
         /\ blockCh = <<>>
         /\ streamOpen
         /\ RetOf(log').num = lastReceivedNumber
         /\ RetOf(log').num = LastWritten ]_vars

C7_Witness ==
  /\ HasReturned(log)
  /\ RetOf(log).err = "timeout"
  /\ RetOf(log).num > 0
  /\ RetOf(log).num = LastWritten

C9_WokenOncePerBurst ==
  /\ (mode = "watch" /\ spc = "w_wait" /\ ~chClosed) => missed < 2
  /\ (slPc = "recv" /\ ~feedsClosed /\ ~panicked) => ENABLED StatusUpdate

\* ------------------------------------------------------------------ C10
\* C10: once the connection listener has processed Disconnected for p (and no
\* Connected for p since), the map holds no entry for p.
C10_NoEntryAfterDisconnect ==
  \A p \in Peers : lastEvent[p] = "disconnected" => p \notin DOMAIN peerMap

\* ------------------------------------------------------------------ C11
\* C11: HasSyncPeer returns a boolean for every map and every head, and true
\* exactly when some entry of the map is above the local head.
C11_HasSyncPeerTotal ==
  hasRet # "-" =>
    /\ hasRet \in {"true", "false"}
    /\ hasRet = "true" <=>
         \E p \in DOMAIN peerMap : header # NoHeader /\ peerMap[p] > header

\* ------------------------------------------------------------------ C12
\* C12: a wake-up of WatchSync that finds every peer of the map in the skip
\* list empties the skip list and goes back to waiting, so that every peer is
\* selectable at the wake-up after it; and the skip list loses a peer at no
\* other step than such a wake-up.
C12_SkipSetReset ==
  [][ /\ (mode = "watch" /\ spc = "w_woken" /\ spc' # spc
           /\ DOMAIN peerMap \subseteq skipList)
         => (skipList' = {} /\ spc' = "w_wait"
             /\ BestPeer(peerMap', skipList') = BestPeer(peerMap', {}))
      /\ ~(skipList \subseteq skipList')
         => (mode = "watch" /\ spc = "w_woken" /\ skipList' = {}
             /\ BestPeer(peerMap, skipList) = {}) ]_vars

\* WatchSync waits with an empty skip list and the peer whose pull failed,
\* and was skipped for it, is still in the map.
C12_Witness ==
  /\ mode = "watch"
  /\ spc = "w_wait"
  /\ skipList = {}
  /\ HasReturned(log)
  /\ RetOf(log).err # "nil"
  /\ bestPeer.id \in DOMAIN peerMap

\* ------------------------------------------------------------------ C13
\* C13: when Close has returned, the notification channel is closed, the
\* responder has been closed and the fetch client has been closed too, also
\* when closing the responder failed; Close returned the responder's error
\* or nil.
C13_CloseAllSteps ==
  closePc = "done" =>
    /\ chClosed
    /\ feedsClosed
    /\ closeRet \in {"err", "nil"}

\* ------------------------------------------------------------------ C14
\* A peer outside the skip list advertises a height above the local head.
C14_Candidate == \E p \in DOMAIN peerMap \ skipList : peerMap[p] > header

\* Such a peer advertises more than the peer WatchSync last pulled from: its
\* status was inserted after WatchSync had chosen that peer.
C14_InsertedWhileBusy ==
  \E p \in DOMAIN peerMap \ skipList :
    peerMap[p] > header /\ peerMap[p] > bestPeer.number

\* C14: a WatchSync that is back in its wait after a pull, while an insertion
\* made during the pull, whose notification was dropped, left a non-skipped
\* peer above the local head, is not left waiting forever, also when no
\* further status event arrives.
C14_WatchNotStarved ==
  (mode = "watch" /\ spc = "w_wait" /\ HasReturned(log) /\ missed > 0
     /\ C14_InsertedWhileBusy)
    ~> (spc # "w_wait" \/ ~C14_Candidate)

\* ------------------------------------------------------------------ C15
\* C15: a pull whose stream ended cleanly after the callback had returned
\* terminate for one of its blocks returns shouldTerminate = true, whatever
\* the callback returned for the blocks after it.
C15_TerminateRemembered ==
  (/\ HasReturned(log)
   /\ RetOf(log).err = "nil"
   /\ \E i \in 1..Len(log) : log[i].op = "callback" /\ log[i].flag)
    => RetOf(log).flag

\* ------------------------------------------------------------------ C16
\* C16: once Close has closed the notification channel, a WatchSync that is
\* running eventually returns (or the process has ended in a panic).
C16_WatchReturnsAfterClose ==
  (chClosed /\ mode = "watch") ~> (spc = "done" \/ panicked)

\* ------------------------------------------------------------------ C17
\* C17: every insertion into the map made while WatchSync waits in its
\* receive, the snapshot's as well as a status update's, wakes WatchSync.
C17_InsertionWakes ==
  [][(mode = "watch" /\ spc = "w_wait" /\ peerMap' # peerMap)
       => spc' = "w_woken"]_vars

\* ------------------------------------------------------------------ C18
C18_CloseStreams == SelectSeq(log, LAMBDA e : e.op = "CloseStream")

\* C18: a pull whose GetBlocks succeeded has called CloseStream for its peer
\* exactly once when it returns, as the last thing before returning and not
\* earlier, whatever the exit (clean end, verification or write failure,
\* timeout); a pull whose GetBlocks failed has returned (0, false, error)
\* and done nothing else.
C18_StreamClosedOnce ==
  /\ (log # <<>> /\ ~HasReturned(log)) => C18_CloseStreams = <<>>
  /\ HasReturned(log) =>
       IF log[1].flag
         THEN /\ C18_CloseStreams = <<EvCloseStream(log[1].peer)>>
              /\ log[Len(log) - 1] = EvCloseStream(log[1].peer)
              /\ RetOf(log).err \in {"nil", "verify", "write", "timeout"}
         ELSE log = <<EvGetBlocks(log[1].peer, log[1].num, FALSE),
                      EvReturn(0, FALSE, "open")>>

\* A pull that wrote a block and then failed has returned.
C18_Witness ==
  /\ HasReturned(log)
  /\ log[1].flag
  /\ RetOf(log).err \in {"verify", "write", "timeout"}
  /\ LastWritten > 0

\* ------------------------------------------------------------------ C19
\* The step of WatchSync that calls the pull loop: the stream is open after
\* it, or GetBlocks failed and the peer went into the skip list.
C19_Opens ==
  /\ mode = "watch"
  /\ spc = "w_woken"
  /\ \/ spc' = "pull"
     \/ spc' = "w_wait" /\ skipList' # {} /\ skipList' # skipList

\* The step of WatchSync at which a pull returns.
C19_Returns ==
  /\ mode = "watch"
  /\ spc = "pull" \/ C19_Opens
  /\ spc' # "pull"
  /\ HasReturned(log')

\* C19: WatchSync calls the pull loop only for a peer outside the skip list
\* whose height in the map is above the local head it has just read; when the
\* pull returns an error or a last height below the advertised one, the peer
\* is in the skip list and WatchSync waits again instead of returning; and a
\* peer leaves the skip list only when the whole list is reset.
C19_WatchPullsAndSkips ==
  [][ /\ C19_Opens =>
           /\ bestPeer'.id \in DOMAIN peerMap \ skipList
           /\ peerMap[bestPeer'.id] = bestPeer'.number
           /\ bestPeer'.number > header
           /\ localLatest' = header
           /\ log'[1].op = "GetBlocks"
           /\ log'[1].peer = bestPeer'.id
           /\ log'[1].num = header + 1
      /\ (C19_Returns /\ (RetOf(log').err # "nil"
                           \/ RetOf(log').num < bestPeer'.number)) =>
           /\ bestPeer'.id \in skipList'
           /\ spc' = "w_wait"
      /\ mode = "watch" => (skipList \subseteq skipList' \/ skipList' = {}) ]_vars

\* WatchSync waits again after a stream that ended cleanly below the height
\* its peer advertised; the peer is skipped.
C19_Witness ==
  /\ mode = "watch"
  /\ spc = "w_wait"
  /\ HasReturned(log)
  /\ log[1].flag
  /\ RetOf(log).err = "nil"
  /\ RetOf(log).num < bestPeer.number
  /\ bestPeer.id \in skipList

\* ------------------------------------------------------------------ C20
\* C20: no status update and no query result reaches its send on the
\* notification channel after Close has closed the channel; such a send
\* panics.
C20_NoSendOnClosed == ~(chClosed /\ panicked)

====
